---- MODULE Spec2Model ----
(***************************************************************************)
(* A model of drawio-to-svg: the geometry kernel (drawio_types.py), the    *)
(* document parser parse_mxfile, the connector router render_arrow /       *)
(* find_best_path and the page renderer render_file (parser.py).           *)
(*                                                                         *)
(* Numbers.  The program computes in floats; the model computes in         *)
(* integers and draws its inputs so that every division the code makes is  *)
(* exact (box sizes are multiples of 4, stroke widths are even, fractional *)
(* anchors are halves).  Euclidean distances are only ever compared, so    *)
(* the model compares their squares.                                       *)
(*                                                                         *)
(* Optional values.  Python's None is the empty tuple and a present value  *)
(* v is the one-element tuple <<v>>.                                       *)
(***************************************************************************)
EXTENDS Integers, Sequences, FiniteSets, TLC

VARIABLES
    pc,        \* which operation runs next
    boxA,      \* geometry kernel: first operand (a Geometry or a Point)
    boxB,      \* geometry kernel: second operand
    bb,        \* geometry kernel: the accumulated bounding box (optional)
    heap,      \* the entities constructed so far (Cell, Arrow, Text, EdgeLabel)
    cur,       \* connector routing: heap index of the Arrow being rendered
    out,       \* connector routing: what render_arrow returned (optional)
    doc,       \* parse_mxfile: the mxCell elements of the diagram, in document order
    order,     \* parse_mxfile: _cells, the document positions in processing order
    idx,       \* the position of the running loop (parse_mxfile, then render_file)
    lut,       \* parse_mxfile: id -> entity (a heap index)
    cells,     \* parse_mxfile: the (og_idx, entity) pairs appended so far
    root,      \* Root.cells of the parsed diagram
    elements,  \* render_file: the ids of the entities emitted so far
    main_bb,   \* render_file: the page's bounding box (optional)
    err,       \* the exception that ended the run, "" when none
    font_cache,\* parser.py: _font_cache, key -> FontRenderer
    parser,    \* html_flattener.py: the HTMLToTokenParser object (optional)
    html,      \* html_flattener.py: the markup fed to the parser, tag by tag
    args       \* text layout: the arguments of the running call (optional)

vars ==
    <<pc, boxA, boxB, bb, heap, cur, out,
      doc, order, idx, lut, cells, root, elements, main_bb, err,
      font_cache, parser, html, args>>

textVars == <<font_cache, parser, html, args>>

fileVars == <<doc, order, idx, lut, cells, root, elements, main_bb, err>>

geomVars == <<boxA, boxB, bb>>

arrowVars == <<cur, out>>

None == <<>>

Some(v) == <<v>>

IsNone(o) == o = <<>>

Get(o) == o[1]

Min(a, b) == IF a <= b THEN a ELSE b

Max(a, b) == IF a >= b THEN a ELSE b

Abs(a) == IF a < 0 THEN -a ELSE a

(***************************************************************************)
(* drawio_types.py: Point and Geometry                                     *)
(***************************************************************************)
Point(px, py) == [x |-> px, y |-> py]

\* Geometry(x, y, width, height): the dataclass's relative field defaults to None
Geometry(gx, gy, gw, gh) ==
    [x |-> gx, y |-> gy, width |-> gw, height |-> gh, relative |-> None]

\* isinstance(item, Point)
IsPoint(item) == DOMAIN item = {"x", "y"}

\* Geometry.from_geom
from_geom(item) ==
    IF IsPoint(item)
    THEN Geometry(item.x, item.y, 0, 0)
    ELSE Geometry(item.x, item.y, item.width, item.height)

\* a plausible slip: the Point branch's far edges used for a box as well
stretch_to_contain_NoExtent(self, item) ==
    IF IsNone(self)
    THEN from_geom(item)
    ELSE LET s == Get(self)
             min_x == Min(s.x, item.x)
             min_y == Min(s.y, item.y)
             max_x == Max(s.x + s.width, item.x)
             max_y == Max(s.y + s.height, item.y)
         IN  Geometry(min_x, min_y, max_x - min_x, max_y - min_y)

\* Geometry.stretch_to_contain; self is optional (the method is also called
\* unbound, with None as self)
stretch_to_contain(self, item) ==
    IF IsNone(self)
    THEN from_geom(item)
    ELSE LET s == Get(self)
             min_x == Min(s.x, item.x)
             min_y == Min(s.y, item.y)
             max_x == IF IsPoint(item)
                      THEN Max(s.x + s.width, item.x)
                      ELSE Max(s.x + s.width, item.x + item.width)
             max_y == IF IsPoint(item)
                      THEN Max(s.y + s.height, item.y)
                      ELSE Max(s.y + s.height, item.y + item.height)
         IN  Geometry(min_x, min_y, max_x - min_x, max_y - min_y)

\* Geometry.stretch_to_contain_point: the padded square is handed over as
\* Geometry(x - hw, y - hw, x + hw, y + hw), i.e. with x + hw as its width
\* and y + hw as its height
stretch_to_contain_point(self, item, stroke_width) ==
    LET hw == stroke_width \div 2
    IN  stretch_to_contain(Some(self),
            Geometry(item.x - hw, item.y - hw, item.x + hw, item.y + hw))

\* Point.__sub__
PSub(p, q) == Point(p.x - q.x, p.y - q.y)

\* Point.__add__
PAdd(p, q) == Point(p.x + q.x, p.y + q.y)

Sign(n) == IF n = 0 THEN 0 ELSE IF n > 0 THEN 1 ELSE -1

\* Point.normalized: each coordinate divided by its own absolute value
normalized(p) == Point(Sign(p.x), Sign(p.y))

\* Point.midpoint
midpoint(p, q) ==
    LET minx == Min(p.x, q.x)
        miny == Min(p.y, q.y)
        maxx == Max(p.x, q.x)
        maxy == Max(p.y, q.y)
    IN  Point((maxx + minx) \div 2, (maxy + miny) \div 2)

\* the square of Point.distance_to (and of the distance closest_point computes)
Dist2(p, q) == (q.x - p.x) * (q.x - p.x) + (q.y - p.y) * (q.y - p.y)

(***************************************************************************)
(* drawio_types.py: Cell, Side, Direction.  Entities live in a heap and    *)
(* refer to each other by heap index, as Python objects do by reference.   *)
(***************************************************************************)
IsCell(v) == "type" \in DOMAIN v /\ v.type = "Cell"

IsArrow(v) == "type" \in DOMAIN v /\ v.type = "Arrow"

IsText(v) == "type" \in DOMAIN v /\ v.type = "Text"

IsEdgeLabel(v) == "type" \in DOMAIN v /\ v.type = "EdgeLabel"

\* the order of Cell.center_points_with_sides
SideOrder == <<"LEFT", "RIGHT", "TOP", "BOTTOM">>

\* Cell.center_points: left, right, top, bottom side-centers
center_points(c) ==
    LET g == Get(c.geometry)
    IN  << Point(g.x, g.y + (g.height \div 2)),
           Point(g.x + g.width, g.y + (g.height \div 2)),
           Point(g.x + (g.width \div 2), g.y),
           Point(g.x + (g.width \div 2), g.y + g.height) >>

(***************************************************************************)
(* parser.py: connector routing                                            *)
(***************************************************************************)
\* fractional anchors (exitX, entryY, ...) are numerators over FracDen
FracDen == 2

\* the points closest_point compares for one operand
PointsOf(a) == IF IsCell(a) THEN center_points(a) ELSE <<a>>

\* closest_point raises: an operand that is None, or a Cell without geometry
closest_point_fails(a, b) ==
    \/ IsNone(a) \/ IsNone(b)
    \/ (IsCell(a) /\ IsNone(a.geometry))
    \/ (IsCell(b) /\ IsNone(b.geometry))

\* a plausible slip: dist <= min_dist, so the last of several nearest pairs wins
closest_point_LastWins(a, b) ==
    LET a_points == PointsOf(a)
        b_points == PointsOf(b)
        nb == Len(b_points)
        n == Len(a_points) * nb
        ap(k) == a_points[((k - 1) \div nb) + 1]
        bp(k) == b_points[((k - 1) % nb) + 1]
        dist(k) == Dist2(ap(k), bp(k))
        best == CHOOSE k \in 1 .. n :
                    \A m \in 1 .. n : dist(k) < dist(m) \/ (dist(k) = dist(m) /\ k >= m)
    IN  ap(best)

\* a plausible slip: closest = bp, the nearest point of the other operand
closest_point_ReturnsOther(a, b) ==
    LET a_points == PointsOf(a)
        b_points == PointsOf(b)
        nb == Len(b_points)
        n == Len(a_points) * nb
        ap(k) == a_points[((k - 1) \div nb) + 1]
        bp(k) == b_points[((k - 1) % nb) + 1]
        dist(k) == Dist2(ap(k), bp(k))
        best == CHOOSE k \in 1 .. n :
                    \A m \in 1 .. n : dist(k) < dist(m) \/ (dist(k) = dist(m) /\ k <= m)
    IN  bp(best)

\* closest_point: of all pairs (ap, bp), taken a_points-major, the first pair at
\* the least distance (the loop replaces its choice only on dist < min_dist)
closest_point(a, b) ==
    LET a_points == PointsOf(a)
        b_points == PointsOf(b)
        nb == Len(b_points)
        n == Len(a_points) * nb
        ap(k) == a_points[((k - 1) \div nb) + 1]
        bp(k) == b_points[((k - 1) % nb) + 1]
        dist(k) == Dist2(ap(k), bp(k))
        best == CHOOSE k \in 1 .. n :
                    \A m \in 1 .. n : dist(k) < dist(m) \/ (dist(k) = dist(m) /\ k <= m)
    IN  ap(best)

\* point_from_rotated_cell raises: no geometry, or no Y
point_from_rotated_cell_fails(c, arrow) ==
    IsNone(c.geometry) \/ IsNone(arrow.X) \/ IsNone(arrow.Y)

\* point_from_rotated_cell
point_from_rotated_cell(c, arrow) ==
    LET g == Get(c.geometry)
        X == Get(arrow.X)
        Y == Get(arrow.Y)
        x_factor == CASE c.direction = "EAST" -> X
                      [] c.direction = "SOUTH" -> Y
                      [] c.direction = "WEST" -> FracDen - X
                      [] c.direction = "NORTH" -> Y
        y_factor == CASE c.direction = "EAST" -> Y
                      [] c.direction = "SOUTH" -> X
                      [] c.direction = "WEST" -> Y
                      [] c.direction = "NORTH" -> FracDen - X
    IN  Point(g.x + (g.width * x_factor) \div FracDen,
              g.y + (g.height * y_factor) \div FracDen)

\* get_closest_side: one turn of its loop, for the k-th side
closest_side_step(prev, c, p, k) ==
    LET sidep == center_points(c)[k]
        side == SideOrder[k]
    IN  IF IsNone(prev.closest)
        THEN [closest |-> Some(sidep), chosen_side |-> Some(side)]
        ELSE IF Dist2(p, sidep) < Dist2(p, Get(prev.closest))
             THEN [closest |-> Some(sidep), chosen_side |-> Some(side)]
             ELSE prev

\* get_closest_side: the loop over the four sides; mindist is the distance to
\* the side kept so far
get_closest_side(c, p) ==
    LET s0 == [closest |-> None, chosen_side |-> None]
        s1 == closest_side_step(s0, c, p, 1)
        s2 == closest_side_step(s1, c, p, 2)
        s3 == closest_side_step(s2, c, p, 3)
        s4 == closest_side_step(s3, c, p, 4)
    IN  Get(s4.chosen_side)

MARGIN == 20

\* a plausible slip: the margin of the top and bottom sides laid along x as well
MarginAt_AlongX(chosen_side, p) ==
    LET mp == CASE chosen_side = "LEFT" -> Point(p.x - MARGIN, p.y)
                [] chosen_side = "RIGHT" -> Point(p.x + MARGIN, p.y)
                [] chosen_side = "TOP" -> Point(p.x - MARGIN, p.y - MARGIN)
                [] chosen_side = "BOTTOM" -> Point(p.x + MARGIN, p.y + MARGIN)
    IN  [mp |-> mp, side |-> chosen_side]

\* get_margin_point, lines 778-790: the match on the chosen side
MarginAt(chosen_side, p) ==
    LET mp == CASE chosen_side = "LEFT" -> Point(p.x - MARGIN, p.y)
                [] chosen_side = "RIGHT" -> Point(p.x + MARGIN, p.y)
                [] chosen_side = "TOP" -> Point(p.x, p.y - MARGIN)
                [] chosen_side = "BOTTOM" -> Point(p.x, p.y + MARGIN)
    IN  [mp |-> mp, side |-> chosen_side]

\* get_margin_point
get_margin_point(c, p) == MarginAt(get_closest_side(c, p), p)

\* a plausible slip: the opposite-sides branches dropped, so that left/right and
\* top/bottom pairs fall through to the "L" branch
JoinMargins_NoZigZag(ms, mt) ==
    LET mps == ms.mp
        mpt == mt.mp
        mid == IF ms.side = mt.side
               THEN <<>>
               ELSE IF ms.side \in {"LEFT", "RIGHT"}
                    THEN <<Point(mpt.x, mps.y)>>
                    ELSE <<Point(mps.x, mpt.y)>>
    IN  <<mps>> \o mid \o <<mpt>>

\* find_best_path, lines 797-823: the points between the two margin points;
\* ms and mt are the (margin point, side) pairs of source and target
JoinMargins(ms, mt) ==
    LET mps == ms.mp
        mpt == mt.mp
        ss == ms.side
        st == mt.side
        mid == IF {ss, st} = {"TOP", "BOTTOM"}
               THEN LET ymid == midpoint(mps, mpt).y
                    IN  <<Point(mps.x, ymid), Point(mpt.x, ymid)>>
               ELSE IF {ss, st} = {"LEFT", "RIGHT"}
               THEN <<Point(midpoint(mps, mpt).x, mps.y), Point(midpoint(mps, mpt).x, mpt.y)>>
               ELSE IF Cardinality({ss, st}) = 1
               THEN <<>>
               ELSE IF ss \in {"LEFT", "RIGHT"}
                    THEN <<Point(mpt.x, mps.y)>>
                    ELSE <<Point(mps.x, mpt.y)>>
    IN  <<mps>> \o mid \o <<mpt>>

\* find_best_path
find_best_path(sp, tp, source, target) ==
    JoinMargins(get_margin_point(source, sp), get_margin_point(target, tp))

HasGeometry(v) == "geometry" \in DOMAIN v /\ ~IsNone(v.geometry)

\* the three shapes of Arrow.source / Arrow.target: None, a Point, an ArrowAtNode
NoEnd == [tag |-> "none"]

PointEnd(p) == [tag |-> "point", p |-> p]

ArrowAtNode(node, X, Y) == [tag |-> "node", node |-> node, X |-> X, Y |-> Y]

\* what render_arrow returns when it raises
ArrowFail(e) ==
    [err |-> e, source_point |-> None, target_point |-> None, synthesized |-> FALSE,
     path |-> <<>>, points |-> <<>>, bb |-> None, aliased |-> FALSE]

\* render_arrow, lines 656-679: one end's local pair (the entity or point, and
\* the point when it is already known).  isTarget: the target branch asserts
\* that a constrained node is a Cell.
ResolveEnd(hp, e, isTarget) ==
    IF e.tag = "node"
    THEN LET c == hp[e.node]
         IN  IF IsNone(e.X)
             THEN [err |-> "", thing |-> c, point |-> None]
             ELSE IF (isTarget /\ ~IsCell(c)) \/ ~HasGeometry(c)
                     \/ IsNone(e.Y) \/ "direction" \notin DOMAIN c
                  THEN [err |-> "constrained", thing |-> c, point |-> None]
                  ELSE [err |-> "", thing |-> c,
                        point |-> Some(point_from_rotated_cell(c, e))]
    ELSE IF e.tag = "point"
         THEN [err |-> "", thing |-> e.p, point |-> Some(e.p)]
         ELSE [err |-> "", thing |-> None, point |-> None]

\* p in points: list membership by value
InList(p, points) == \E i \in 1 .. Len(points) : points[i] = p

\* render_arrow, lines 729-739: the cap trimming, on a list of at least two
\* points; the end cap reads the list the start cap has already changed
TrimCaps(points, start_style, end_style) ==
    LET n == Len(points)
        p1 == IF start_style = "classic"
              THEN [points EXCEPT ![1] = PAdd(points[1], normalized(PSub(points[2], points[1])))]
              ELSE points
    IN  IF end_style = "classic"
        THEN [p1 EXCEPT ![n] = PSub(p1[n], normalized(PSub(p1[n], p1[n - 1])))]
        ELSE p1

\* render_arrow, lines 741-746: the bounding box, seeded from the first point
\* and stretched by every later one
RECURSIVE ArrowBB(_, _, _)
ArrowBB(points, k, stroke_width) ==
    IF k = 1
    THEN from_geom(points[1])
    ELSE stretch_to_contain_point(ArrowBB(points, k - 1, stroke_width), points[k], stroke_width)

\* a plausible slip: the "not in" guards dropped, both anchors always added
DedupEnds_Always(points, source_point, target_point) ==
    <<source_point>> \o points \o <<target_point>>

\* render_arrow, lines 717-725: the target anchor is appended unless some point
\* of the list equals it, then the source anchor is prepended likewise
DedupEnds(points, source_point, target_point) ==
    LET p1 == IF ~InList(target_point, points) THEN Append(points, target_point) ELSE points
    IN  IF ~InList(source_point, p1) THEN <<source_point>> \o p1 ELSE p1

\* render_arrow, lines 741-756: the result; stored: whether the list worked on
\* is arrow.points itself (neither anchor was added to the waypoints)
ArrowResult(arrow, sp, tp, synth, path, points) ==
    [err |-> "", source_point |-> Some(sp), target_point |-> Some(tp),
     synthesized |-> synth, path |-> path, points |-> points,
     bb |-> Some(ArrowBB(points, Len(points), arrow.stroke.width)),
     aliased |-> ~synth /\ path = arrow.points]

\* render_arrow, lines 727-739: points[1] and points[-2] need two points
ArrowCaps(arrow, sp, tp, synth, path) ==
    IF (arrow.start_style = "classic" \/ arrow.end_style = "classic") /\ Len(path) < 2
    THEN ArrowFail("caps")
    ELSE ArrowResult(arrow, sp, tp, synth, path,
                     TrimCaps(path, arrow.start_style, arrow.end_style))

\* render_arrow, lines 704-725: the point list
ArrowPath(arrow, source, target, sp, target_point) ==
    IF IsNone(target_point)
    THEN ArrowFail("target")
    ELSE IF Len(arrow.points) = 0 /\ IsCell(source)
         THEN IF ~IsCell(target)
              THEN ArrowFail("path")
              ELSE ArrowCaps(arrow, sp, Get(target_point), TRUE,
                       DedupEnds(find_best_path(sp, Get(target_point), source, target),
                                 sp, Get(target_point)))
         ELSE ArrowCaps(arrow, sp, Get(target_point), FALSE,
                  DedupEnds(arrow.points, sp, Get(target_point)))

\* render_arrow, lines 691-702: the unconstrained target, nearest to the
\* source point
ArrowTarget(arrow, s, t, source_point) ==
    IF IsNone(source_point)
    THEN ArrowFail("source")
    ELSE IF arrow.target.tag = "node" /\ IsNone(arrow.target.X)
         THEN IF closest_point_fails(t.thing, Get(source_point)) \/ ~IsCell(t.thing)
              THEN ArrowFail("target")
              ELSE ArrowPath(arrow, s.thing, t.thing, Get(source_point),
                             Some(closest_point(t.thing, Get(source_point))))
         ELSE ArrowPath(arrow, s.thing, t.thing, Get(source_point), t.point)

\* render_arrow, lines 681-689: the unconstrained source, nearest to
\* target_point or target
ArrowSource(arrow, s, t) ==
    IF t.err # "" THEN ArrowFail("target")
    ELSE IF s.err # "" THEN ArrowFail("source")
    ELSE IF arrow.source.tag = "node" /\ IsNone(arrow.source.X)
         THEN LET ref == IF ~IsNone(t.point) THEN Get(t.point) ELSE t.thing
              IN  IF closest_point_fails(s.thing, ref) \/ ~IsCell(s.thing)
                     \/ ~(IsCell(ref) \/ IsPoint(ref))
                  THEN ArrowFail("source")
                  ELSE ArrowTarget(arrow, s, t, Some(closest_point(s.thing, ref)))
         ELSE ArrowTarget(arrow, s, t, s.point)

\* render_arrow
render_arrow(hp, arrow) ==
    ArrowSource(arrow, ResolveEnd(hp, arrow.source, FALSE), ResolveEnd(hp, arrow.target, TRUE))

(***************************************************************************)
(* The geometry kernel on its own: two operands, stretched in turn from    *)
(* the empty state.                                                        *)
(***************************************************************************)
GeomMaxCoord == 1

GeomMaxSize == 2

GeomCoords == (-1) .. GeomMaxCoord

GeomSizes == 0 .. GeomMaxSize

GeomBoxes ==
    { [x |-> gx, y |-> gy, width |-> gw, height |-> gh, relative |-> r] :
        gx \in GeomCoords, gy \in GeomCoords, gw \in GeomSizes, gh \in GeomSizes,
        r \in {None} }

GeomPoints == { Point(px, py) : px \in GeomCoords, py \in GeomCoords }

GeomItems == GeomBoxes \cup GeomPoints

\* the variables of the operations a specification leaves out
GeomIdle == boxA = None /\ boxB = None /\ bb = None

ArrowIdle == cur = 0 /\ out = None

TextIdle == font_cache = <<>> /\ parser = None /\ html = <<>> /\ args = None

FileIdle ==
    /\ doc = <<>> /\ order = <<>> /\ idx = 0 /\ lut = <<>> /\ cells = <<>>
    /\ root = <<>> /\ elements = <<>> /\ main_bb = None /\ err = ""

InitGeom ==
    /\ pc = "geom_first"
    /\ boxA \in GeomItems
    /\ boxB \in GeomItems
    /\ bb = None
    /\ heap = <<>>
    /\ ArrowIdle
    /\ FileIdle
    /\ TextIdle

\* bb = Geometry.stretch_to_contain(None, A)
StretchFirst ==
    /\ pc = "geom_first"
    /\ bb' = Some(stretch_to_contain(bb, boxA))
    /\ pc' = "geom_second"
    /\ UNCHANGED <<boxA, boxB, heap, arrowVars, fileVars, textVars>>

\* bb = bb.stretch_to_contain(B)
StretchSecond ==
    /\ pc = "geom_second"
    /\ bb' = Some(stretch_to_contain(bb, boxB))
    /\ pc' = "geom_done"
    /\ UNCHANGED <<boxA, boxB, heap, arrowVars, fileVars, textVars>>

NextGeom == StretchFirst \/ StretchSecond

SpecGeom == InitGeom /\ [][NextGeom]_vars

\* the corners of a box, or the point itself
Corners(item) ==
    IF IsPoint(item)
    THEN {item}
    ELSE { Point(cx, cy) : cx \in {item.x, item.x + item.width},
                           cy \in {item.y, item.y + item.height} }

Contains(g, p) ==
    /\ g.x <= p.x /\ p.x <= g.x + g.width
    /\ g.y <= p.y /\ p.y <= g.y + g.height

\* g contains every point of ps and each of its four edges passes through one
SmallestBoxAround(g, ps) ==
    /\ \A p \in ps : Contains(g, p)
    /\ \E p \in ps : p.x = g.x
    /\ \E p \in ps : p.x = g.x + g.width
    /\ \E p \in ps : p.y = g.y
    /\ \E p \in ps : p.y = g.y + g.height

\* C5: stretch_to_contain(stretch_to_contain(None, A), B) is the smallest box
\* that contains every corner of A and of B (its edges are the minimum and the
\* maximum of theirs), and stretch_to_contain(None, A) is A itself, a Point
\* giving the zero-size box at that point.
C5_StretchIsSmallestCover ==
    /\ pc = "geom_second" =>
          /\ Get(bb).x = boxA.x /\ Get(bb).y = boxA.y
          /\ Get(bb).width = (IF IsPoint(boxA) THEN 0 ELSE boxA.width)
          /\ Get(bb).height = (IF IsPoint(boxA) THEN 0 ELSE boxA.height)
    /\ pc = "geom_done" =>
          SmallestBoxAround(Get(bb), Corners(boxA) \cup Corners(boxB))

\* two proper boxes, the second reaching further right and down than the first
C5_Witness ==
    /\ pc = "geom_done"
    /\ ~IsPoint(boxA) /\ ~IsPoint(boxB)
    /\ boxA.width > 0 /\ boxB.height > 0
    /\ boxB.x > boxA.x
    /\ boxB.x + boxB.width > boxA.x + boxA.width
    /\ boxB.y + boxB.height > boxA.y + boxA.height

(***************************************************************************)
(* One connector between two nodes, rendered by render_arrow.              *)
(***************************************************************************)
\* Cell(...): the fields of the dataclass the model reads
Cell(id, geometry, shape, direction, parent_node, is_group, value) ==
    [type |-> "Cell", id |-> id, value |-> value, geometry |-> geometry,
     shape |-> shape, direction |-> direction, parent_node |-> parent_node,
     is_group |-> is_group]

\* Arrow(...)
Arrow(id, geometry, source, target, points, start_style, end_style, stroke_width) ==
    [type |-> "Arrow", id |-> id, geometry |-> geometry, source |-> source, target |-> target,
     points |-> points, start_style |-> start_style, end_style |-> end_style,
     stroke |-> [width |-> stroke_width]]

ArrowMaxPos == 2

MaxWaypoints == 2

CapStyles == {"none", "classic"}

Directions == {"EAST", "SOUTH", "WEST", "NORTH"}

\* box positions on a grid, both signs
ArrowCoords == { 40 * i : i \in (-ArrowMaxPos) .. ArrowMaxPos }

ArrowSizes == {40, 120}

\* fractional anchors drawn: the four side-centers and one corner
AnchorFracs == { <<0, 1>>, <<2, 1>>, <<1, 0>>, <<1, 2>>, <<0, 0>> }

\* free end points and waypoints; (0, 20) is also the left side-center of the
\* fixed source box below
PointPool == { Point(0, 20), Point(60, 20), Point(60, -40) }

RECURSIVE SeqsUpTo(_, _)
SeqsUpTo(S, n) ==
    IF n = 0
    THEN { <<>> }
    ELSE LET shorter == SeqsUpTo(S, n - 1)
         IN  shorter \cup { Append(q, e) : q \in { r \in shorter : Len(r) = n - 1 }, e \in S }

NodeEnds(ref) ==
    { ArrowAtNode(ref, None, None) }
        \cup { ArrowAtNode(ref, Some(f[1]), Some(f[2])) : f \in AnchorFracs }

FreeEnds == { PointEnd(p) : p \in PointPool } \cup { NoEnd }

StrokeWidths == {2, 4}

\* both ends on nodes, no waypoints: every relative position and size
RoutingScene ==
    \E sw \in ArrowSizes, sh \in ArrowSizes, tx \in ArrowCoords, ty \in ArrowCoords,
       tw \in ArrowSizes, th \in ArrowSizes,
       se \in NodeEnds(1), te \in NodeEnds(2), ss \in CapStyles, es \in CapStyles :
        heap = << Cell("s", Some(Geometry(0, 0, sw, sh)), "Rect", "EAST", None, FALSE, None),
                  Cell("t", Some(Geometry(tx, ty, tw, th)), "Rect", "EAST", None, FALSE, None),
                  Arrow("e", Some(Geometry(0, 0, None, None)), se, te, <<>>, ss, es, 2) >>

\* two fixed boxes; ends of every kind, waypoints, caps and stroke widths
WaypointScene ==
    \E d \in Directions,
       se \in { ArrowAtNode(1, None, None), ArrowAtNode(1, Some(0), Some(1)) } \cup FreeEnds,
       te \in { ArrowAtNode(2, None, None), ArrowAtNode(2, Some(1), Some(0)) } \cup FreeEnds,
       wp \in SeqsUpTo(PointPool, MaxWaypoints),
       ss \in CapStyles, es \in CapStyles, w \in StrokeWidths :
        heap = << Cell("s", Some(Geometry(0, 0, 40, 40)), "Rect", d, None, FALSE, None),
                  Cell("t", Some(Geometry(80, 40, 40, 120)), "Rect", "EAST", None, FALSE, None),
                  Arrow("e", Some(Geometry(0, 0, None, None)), se, te, wp, ss, es, w) >>

InitArrow ==
    /\ pc = "arrow"
    /\ (RoutingScene \/ WaypointScene)
    /\ cur = 3
    /\ out = None
    /\ GeomIdle
    /\ FileIdle
    /\ TextIdle

\* render_arrow(arrow); the cap trimming writes into arrow.points when the
\* list it works on is that very list
RenderArrow ==
    /\ pc = "arrow"
    /\ LET r == render_arrow(heap, heap[cur])
       IN  /\ out' = Some(r)
           /\ heap' = IF r.err = "" /\ r.aliased
                      THEN [heap EXCEPT ![cur].points = r.points]
                      ELSE heap
    /\ pc' = "arrow_done"
    /\ UNCHANGED <<cur, geomVars, fileVars, textVars>>

NextArrow == RenderArrow

SpecArrow == InitArrow /\ [][NextArrow]_vars


(***************************************************************************)
(* Properties of connector routing (checked under SpecArrow)               *)
(***************************************************************************)
ArrowDone == pc = "arrow_done" /\ Get(out).err = ""

\* the connector as rendered: both ends on nodes, no waypoints
NodeToNode ==
    /\ heap[cur].source.tag = "node"
    /\ heap[cur].target.tag = "node"
    /\ Len(heap[cur].points) = 0

Unconstrained == IsNone(heap[cur].source.X) /\ IsNone(heap[cur].target.X)

\* every segment of a point list is horizontal or vertical
Orthogonal(points) ==
    \A i \in 1 .. Len(points) - 1 :
        points[i].x = points[i + 1].x \/ points[i].y = points[i + 1].y

\* the sides find_best_path chooses at the resolved anchors
SourceSide == get_closest_side(heap[1], Get(Get(out).source_point))

TargetSide == get_closest_side(heap[2], Get(Get(out).target_point))

\* what find_best_path returns at the resolved anchors
Synthesized ==
    find_best_path(Get(Get(out).source_point), Get(Get(out).target_point), heap[1], heap[2])

\* C6 as stated: for a connector without waypoints between two node-anchored
\* ends, every segment of the rendered path is horizontal or vertical,
\* whichever sides are chosen.
C6_EverySegmentOrthogonal ==
    (ArrowDone /\ NodeToNode) => Orthogonal(Get(out).points)

\* C6 as amended: the same, whenever the two chosen sides differ (with the same
\* side chosen at both ends the two margin points are joined directly).
C6_OrthogonalWhenSidesDiffer ==
    (ArrowDone /\ NodeToNode /\ SourceSide # TargetSide) => Orthogonal(Get(out).points)

\* an "L" route between perpendicular sides, both anchors and the elbow emitted
C6_Witness ==
    /\ ArrowDone /\ NodeToNode
    /\ SourceSide \in {"LEFT", "RIGHT"} /\ TargetSide \in {"TOP", "BOTTOM"}
    /\ Len(Get(out).points) = 5
    /\ Get(out).points[2].x # Get(out).points[4].x
    /\ Get(out).points[2].y # Get(out).points[4].y

YCenter(c) == Get(c.geometry).y + (Get(c.geometry).height \div 2)

\* two boxes on one horizontal band: different x, same y-center
SameBand == Get(heap[1].geometry).x # Get(heap[2].geometry).x /\ YCenter(heap[1]) = YCenter(heap[2])

\* one box lies entirely to the left of the other
SourceLeftOfTarget ==
    Get(heap[1].geometry).x + Get(heap[1].geometry).width < Get(heap[2].geometry).x

TargetLeftOfSource ==
    Get(heap[2].geometry).x + Get(heap[2].geometry).width < Get(heap[1].geometry).x

PositiveWidths == Get(heap[1].geometry).width > 0 /\ Get(heap[2].geometry).width > 0

\* C7 as stated: both ends unconstrained, no waypoints, boxes on one horizontal
\* band: find_best_path returns the "L" case, one elbow between the margins.
C7_SameBandIsL ==
    (ArrowDone /\ NodeToNode /\ Unconstrained /\ SameBand) => Len(Synthesized) = 3

\* C7 as amended: both ends unconstrained, no waypoints, boxes of positive width
\* on one horizontal band that do not overlap horizontally: the chosen sides
\* are the facing left/right pair and find_best_path returns the zig-zag case,
\* two interior points between the margin points, both at the margins' middle
\* x and on the band's y-center.
C7_SameBandIsZigZag ==
    (ArrowDone /\ NodeToNode /\ Unconstrained /\ SameBand /\ PositiveWidths
        /\ (SourceLeftOfTarget \/ TargetLeftOfSource)) =>
        /\ {SourceSide, TargetSide} = {"LEFT", "RIGHT"}
        /\ SourceSide = (IF SourceLeftOfTarget THEN "RIGHT" ELSE "LEFT")
        /\ Len(Synthesized) = 4
        /\ Synthesized[2] = Synthesized[3]
        /\ 2 * Synthesized[2].x = Synthesized[1].x + Synthesized[4].x
        /\ \A i \in 1 .. 4 : Synthesized[i].y = YCenter(heap[1])

\* boxes of different heights on one band, the target to the left
C7_Witness ==
    /\ ArrowDone /\ NodeToNode /\ Unconstrained /\ SameBand /\ TargetLeftOfSource
    /\ Get(heap[1].geometry).height # Get(heap[2].geometry).height
    /\ Len(Synthesized) = 4

Padded(p, w) ==
    { Point(p.x - (w \div 2), p.y - (w \div 2)), Point(p.x + (w \div 2), p.y + (w \div 2)) }

PaddedCorners(points, w) == UNION { Padded(points[i], w) : i \in 1 .. Len(points) }

\* C9: the bounding box render_arrow returns is the smallest box containing,
\* for every point p of the emitted path, the square from (p.x - w/2, p.y - w/2)
\* to (p.x + w/2, p.y + w/2), w the stroke width.
C9_BBoxIsPaddedHull ==
    ArrowDone =>
        SmallestBoxAround(Get(Get(out).bb),
                          PaddedCorners(Get(out).points, heap[cur].stroke.width))


(***************************************************************************)
(* parse_mxfile: from the mxCell elements of a diagram to entities.        *)
(* Ids are the numbers they spell.                                         *)
(***************************************************************************)
\* the attributes and children of an <mxGeometry> element that are read
mxGeometry(x, y, width, height, relative) ==
    [x |-> x, y |-> y, width |-> width, height |-> height, relative |-> relative]

\* the style keys that are read; a key that is not set is None
NoStyle ==
    [text |-> None, edgeLabel |-> None, group |-> None, shape |-> None, direction |-> None,
     exitX |-> None, exitY |-> None, entryX |-> None, entryY |-> None,
     startArrow |-> None, endArrow |-> None, strokeWidth |-> None]

\* the attributes and children of an <mxCell> element that are read
mxCell(id, parent, edge, style, geom, source, target, sourcePoint, targetPoint) ==
    [id |-> id, parent |-> parent, edge |-> edge, style |-> style, geom |-> geom,
     source |-> source, target |-> target,
     sourcePoint |-> sourcePoint, targetPoint |-> targetPoint, extra |-> <<>>, offset |-> None]

\* styles.get(key, default)
StyleGet(styles, key, default) == IF IsNone(styles[key]) THEN default ELSE Get(styles[key])

\* parse_geometry
parse_geometry(geom_elem, parent_geom) ==
    [x |-> geom_elem.x + (IF IsNone(parent_geom) THEN 0 ELSE Get(parent_geom).x),
     y |-> geom_elem.y + (IF IsNone(parent_geom) THEN 0 ELSE Get(parent_geom).y),
     width |-> geom_elem.width,
     height |-> geom_elem.height,
     relative |-> geom_elem.relative]

\* Text.from_styles: the fields the model reads; direction is the property
Text(id, value, geometry) ==
    [type |-> "Text", id |-> id, value |-> value, geometry |-> geometry, direction |-> "EAST"]

EdgeLabelRelative(pathPercentage, orthogonalDistance, parent, offset) ==
    [kind |-> "Relative", pathPercentage |-> pathPercentage,
     orthogonalDistance |-> orthogonalDistance, parent |-> parent, offset |-> offset]

EdgeLabelAbsolute(x, y) == [kind |-> "Absolute", x |-> x, y |-> y]

EdgeLabel(id, value, positioning) ==
    [type |-> "EdgeLabel", id |-> id, value |-> value, positioning |-> positioning]

\* what one iteration of the loop builds, or the exception it raises
Parsed(c) == [err |-> "", c |-> c]

ParseError(e) == [err |-> e, c |-> None]

\* lut.get(key)
LutGet(l, key) ==
    IF IsNone(key) \/ Get(key) \notin DOMAIN l THEN None ELSE Some(l[Get(key)])

\* the sort key of line 175: connectors and connector labels go last
SortKey(cell) == cell.edge \/ ~IsNone(cell.style.edgeLabel)

\* sorted(_cells_with_idx, key = ...): stable, False before True
SortedCells(d) ==
    SelectSeq([i \in 1 .. Len(d) |-> i], LAMBDA i : ~SortKey(d[i]))
        \o SelectSeq([i \in 1 .. Len(d) |-> i], LAMBDA i : SortKey(d[i]))

\* one end of parse_arrow: lut[id] when the attribute is set, else the mxPoint
ArrowEnd(l, ref, X, Y, point) ==
    IF ~IsNone(ref)
    THEN ArrowAtNode(l[Get(ref)], X, Y)
    ELSE IF IsNone(point) THEN NoEnd ELSE PointEnd(Get(point))

\* parse_arrow
parse_arrow(cell, l) ==
    IF IsNone(cell.geom)
    THEN ParseError("AssertionError")
    ELSE IF (~IsNone(cell.source) /\ Get(cell.source) \notin DOMAIN l)
            \/ (~IsNone(cell.target) /\ Get(cell.target) \notin DOMAIN l)
         THEN ParseError("KeyError")
         ELSE Parsed(Arrow(cell.id, Some(parse_geometry(Get(cell.geom), None)),
                           ArrowEnd(l, cell.source, cell.style.exitX, cell.style.exitY,
                                    cell.sourcePoint),
                           ArrowEnd(l, cell.target, cell.style.entryX, cell.style.entryY,
                                    cell.targetPoint),
                           cell.extra,
                           StyleGet(cell.style, "startArrow", "none"),
                           StyleGet(cell.style, "endArrow", "classic"),
                           StyleGet(cell.style, "strokeWidth", 1)))

\* Shape.from_str
ShapeNames == [rect |-> "Rect", curlyBracket |-> "Curly"]

\* Direction.from_str
DirectionNames == [east |-> "EAST", west |-> "WEST", south |-> "SOUTH", north |-> "NORTH"]

\* parse_mxfile, lines 191-214: a connector label; parent 1 is the layer
ParseEdgeLabel(hp, cell, parent_node, geometry) ==
    IF IsNone(cell.geom) \/ IsNone(parent_node)
    THEN ParseError("AssertionError")
    ELSE IF IsNone(Get(geometry).relative) \/ Get(Get(geometry).relative) = 0
         THEN Parsed(EdgeLabel(cell.id, None,
                               EdgeLabelAbsolute(Get(geometry).x, Get(geometry).y)))
         ELSE IF hp[Get(parent_node)].id = 1
              THEN ParseError("AssertionError")
              ELSE Parsed(EdgeLabel(cell.id, None,
                       EdgeLabelRelative(Get(geometry).x, Get(geometry).y, Get(parent_node),
                           IF IsNone(cell.offset) THEN Point(0, 0) ELSE Get(cell.offset))))

\* parse_mxfile, lines 215-246: a node
ParseNode(cell, parent_node, geometry) ==
    IF StyleGet(cell.style, "shape", "rect") \notin DOMAIN ShapeNames
    THEN ParseError("NotImplementedError")
    ELSE IF StyleGet(cell.style, "direction", "east") \notin DOMAIN DirectionNames
         THEN ParseError("KeyError")
         ELSE Parsed(Cell(cell.id, geometry,
                          ShapeNames[StyleGet(cell.style, "shape", "rect")],
                          DirectionNames[StyleGet(cell.style, "direction", "east")],
                          parent_node, ~IsNone(cell.style.group), None))

\* parse_mxfile, lines 188-246: the entity of a cell, by its kind
ParseEntity(hp, l, cell, parent_node, geometry) ==
    IF cell.edge THEN parse_arrow(cell, l)
    ELSE IF ~IsNone(cell.style.text) THEN Parsed(Text(cell.id, None, geometry))
    ELSE IF ~IsNone(cell.style.edgeLabel) THEN ParseEdgeLabel(hp, cell, parent_node, geometry)
    ELSE ParseNode(cell, parent_node, geometry)

\* parse_mxfile, lines 180-186: the cell's geometry, offset by the geometry of
\* the parent that the table holds
CellGeometry(hp, cell, parent_node) ==
    IF IsNone(cell.geom)
    THEN None
    ELSE Some(parse_geometry(Get(cell.geom),
                  IF ~IsNone(parent_node) /\ HasGeometry(hp[Get(parent_node)])
                  THEN hp[Get(parent_node)].geometry
                  ELSE None))

\* parent_node.geometry on an entity without that attribute (an EdgeLabel)
CellGeometryFails(hp, cell, parent_node) ==
    /\ ~IsNone(cell.geom)
    /\ ~IsNone(parent_node)
    /\ "geometry" \notin DOMAIN hp[Get(parent_node)]

\* one iteration of the loop of lines 177-248
ParseOne(hp, l, cell, parent_node) ==
    IF CellGeometryFails(hp, cell, parent_node)
    THEN ParseError("AttributeError")
    ELSE ParseEntity(hp, l, cell, parent_node, CellGeometry(hp, cell, parent_node))

\* the re-sort of line 251 without the sort
resorted_cells_Unsorted(cs) == [k \in 1 .. Len(cs) |-> cs[k][2]]

\* [c for _, c in sorted(cells)]: by original index
resorted_cells(cs) ==
    [k \in 1 .. Len(cs) |->
        cs[CHOOSE j \in 1 .. Len(cs) :
               Cardinality({ m \in 1 .. Len(cs) : cs[m][1] < cs[j][1] }) = k - 1][2]]


(***************************************************************************)
(* render_file: the entities of Root.cells, in order.  The box of a        *)
(* rendered text depends on the glyphs of a font file; here it is the      *)
(* text's own geometry.                                                    *)
(***************************************************************************)
\* what rendering one entity returns: its bounding box and the heap after it
Rendered(b, hp) == [err |-> "", skipped |-> FALSE, bb |-> Some(b), heap |-> hp]

Skipped(hp) == [err |-> "", skipped |-> TRUE, bb |-> None, heap |-> hp]

RenderError(e, hp) == [err |-> e, skipped |-> FALSE, bb |-> None, heap |-> hp]

\* render_text
render_text(text, hp) ==
    IF IsNone(text.geometry)
    THEN RenderError("AttributeError", hp)
    ELSE Rendered(from_geom(Get(text.geometry)), hp)

\* get_point_from_line, for the horizontal and vertical segments the model
\* draws: the unit vector is the sign vector, the length the coordinate span
get_point_from_line(p1, p2, path_percentage, orthogonal_distance) ==
    Point(((p1.x + p2.x) \div 2)
              + (Sign(p2.x - p1.x) * path_percentage
                     * ((Abs(p2.x - p1.x) + Abs(p2.y - p1.y)) \div 2))
              + (Sign(p2.y - p1.y) * orthogonal_distance),
          ((p1.y + p2.y) \div 2)
              + (Sign(p2.y - p1.y) * path_percentage
                     * ((Abs(p2.x - p1.x) + Abs(p2.y - p1.y)) \div 2))
              - (Sign(p2.x - p1.x) * orthogonal_distance))

\* render_edge_label, the relative case: the parent must be a connector
\* between two free points
RelativeLabelFails(parent) ==
    \/ ~IsArrow(parent)
    \/ parent.source.tag # "point"
    \/ parent.target.tag # "point"
    \/ parent.source.p = parent.target.p

\* render_edge_label
render_edge_label(el, hp) ==
    IF el.positioning.kind = "Absolute"
    THEN render_text(Text("idk", el.value,
                          Some(Geometry(el.positioning.x, el.positioning.y, 0, 0))), hp)
    ELSE IF RelativeLabelFails(hp[el.positioning.parent])
         THEN RenderError("AssertionError", hp)
         ELSE render_text(
                  Text("idk", el.value,
                       Some(from_geom(PAdd(get_point_from_line(
                                               hp[el.positioning.parent].source.p,
                                               hp[el.positioning.parent].target.p,
                                               el.positioning.pathPercentage,
                                               el.positioning.orthogonalDistance),
                                           el.positioning.offset)))), hp)

\* render_rect, lines 562-572: a curly bracket facing north or south swaps its
\* width and height about its center, in the cell's own geometry
RotatedGeometry(g) ==
    [g EXCEPT !.width = g.height,
              !.height = g.width,
              !.x = g.x + ((g.width \div 2) - (g.height \div 2)),
              !.y = g.y + ((g.height \div 2) - (g.width \div 2))]

RectGeometry(cell) ==
    IF cell.shape = "Curly" /\ cell.direction \in {"NORTH", "SOUTH"}
    THEN RotatedGeometry(Get(cell.geometry))
    ELSE Get(cell.geometry)

\* render_rect: the shape, then the label text over the same geometry
render_rect(hp, i) ==
    Rendered(stretch_to_contain(Some(from_geom(RectGeometry(hp[i]))), RectGeometry(hp[i])),
             [hp EXCEPT ![i].geometry = Some(RectGeometry(hp[i]))])

\* render_file, line 841: a connector; the cap trimming writes into
\* arrow.points when the list it works on is that very list
RenderArrowCell(hp, i, r) ==
    IF r.err # ""
    THEN RenderError("render_arrow", hp)
    ELSE Rendered(Get(r.bb), IF r.aliased THEN [hp EXCEPT ![i].points = r.points] ELSE hp)

\* render_file, lines 839-863: one iteration of the loop
RenderOne(hp, i) ==
    IF IsArrow(hp[i]) THEN RenderArrowCell(hp, i, render_arrow(hp, hp[i]))
    ELSE IF IsText(hp[i]) THEN render_text(hp[i], hp)
    ELSE IF IsEdgeLabel(hp[i]) THEN render_edge_label(hp[i], hp)
    ELSE IF hp[i].is_group \/ IsNone(hp[i].geometry) THEN Skipped(hp)
    ELSE render_rect(hp, i)

(***************************************************************************)
(* One diagram, parsed and rendered.                                       *)
(***************************************************************************)
MaxCells == 3

\* the geometry a cell at a document position carries
RawX(i) == (80 * i) - 120

RawY(i) == 20 * i

\* a reference to the cell before, the cell after, or none; before the first
\* and after the last cell there is no cell
RefKinds == {"none", "prev", "next"}

Ref(i, k) == IF k = "prev" THEN Some(i - 1) ELSE IF k = "next" THEN Some(i + 1) ELSE None

BoxGeom(i) == Some(mxGeometry(RawX(i), RawY(i), 40, 40, None))

NodeCells(i) ==
    { mxCell(i, Ref(i, k), FALSE, NoStyle, BoxGeom(i), None, None, None, None) : k \in RefKinds }
        \cup { mxCell(i, None, FALSE, NoStyle, None, None, None, None, None),
               mxCell(i, None, FALSE, [NoStyle EXCEPT !.shape = Some("ellipse")], BoxGeom(i),
                      None, None, None, None),
               mxCell(i, None, FALSE, [NoStyle EXCEPT !.group = Some("1")], BoxGeom(i),
                      None, None, None, None),
               mxCell(i, None, FALSE,
                      [NoStyle EXCEPT !.shape = Some("curlyBracket"), !.direction = Some("north")],
                      Some(mxGeometry(RawX(i), RawY(i), 40, 120, None)), None, None, None, None),
               mxCell(i, None, FALSE, [NoStyle EXCEPT !.text = Some("1")], BoxGeom(i),
                      None, None, None, None) }

EdgeStyle == [NoStyle EXCEPT !.strokeWidth = Some(2)]

EdgeGeom == Some(mxGeometry(0, 0, None, None, Some(1)))

\* connectors: between the neighbours either way, to a free point, without a
\* source, and between two free points on one horizontal line
EdgeCells(i) ==
    { mxCell(i, None, TRUE, EdgeStyle, EdgeGeom, Some(i - 1), Some(i + 1), None, None),
      mxCell(i, None, TRUE, EdgeStyle, EdgeGeom, Some(i + 1), Some(i - 1), None, None),
      mxCell(i, None, TRUE, EdgeStyle, EdgeGeom, Some(i - 1), None,
             None, Some(Point(RawX(i), RawY(i)))),
      mxCell(i, None, TRUE, EdgeStyle, EdgeGeom, None, Some(i + 1), None, None),
      mxCell(i, None, TRUE, EdgeStyle, EdgeGeom, None, None,
             Some(Point(RawX(i), RawY(i))), Some(Point(RawX(i) + 80, RawY(i)))) }

LabelStyle == [NoStyle EXCEPT !.edgeLabel = Some("1")]

\* connector labels: relative to the connector before or after, or absolute
LabelCells(i) ==
    { mxCell(i, Some(i - 1), FALSE, LabelStyle, Some(mxGeometry(0, 8, None, None, Some(1))),
             None, None, None, None),
      mxCell(i, Some(i + 1), FALSE, LabelStyle, Some(mxGeometry(0, 8, None, None, Some(1))),
             None, None, None, None),
      mxCell(i, Some(i - 1), FALSE, LabelStyle, Some(mxGeometry(RawX(i), RawY(i), None, None, None)),
             None, None, None, None) }

CellsAt(i) == NodeCells(i) \cup EdgeCells(i) \cup LabelCells(i)

InitFile ==
    /\ pc = "read"
    /\ doc = <<>>
    /\ order = <<>> /\ idx = 0 /\ lut = <<>> /\ cells = <<>>
    /\ root = <<>> /\ elements = <<>> /\ main_bb = None /\ err = ""
    /\ heap = <<>>
    /\ GeomIdle
    /\ ArrowIdle
    /\ TextIdle

\* parse_mxfile, lines 157-166: the next mxCell element of the diagram
ReadCell ==
    /\ pc = "read"
    /\ Len(doc) < MaxCells
    /\ \E cell \in CellsAt(Len(doc) + 1) : doc' = Append(doc, cell)
    /\ UNCHANGED <<pc, order, idx, lut, cells, root, elements, main_bb, err, heap,
                   geomVars, arrowVars, textVars>>

\* parse_mxfile, lines 166-176: connectors and their labels go last
ParseSort ==
    /\ pc = "read"
    /\ doc # <<>>
    /\ order' = SortedCells(doc)
    /\ idx' = 1
    /\ pc' = "parse"
    /\ UNCHANGED <<doc, lut, cells, root, elements, main_bb, err, heap, geomVars, arrowVars, textVars>>

\* parse_mxfile, lines 177-248: one cell; an exception ends the run
ParseCell ==
    /\ pc = "parse"
    /\ idx <= Len(order)
    /\ LET r == ParseOne(heap, lut, doc[order[idx]], LutGet(lut, doc[order[idx]].parent))
       IN  IF r.err # ""
           THEN /\ pc' = "failed"
                /\ err' = r.err
                /\ UNCHANGED <<heap, lut, cells, idx>>
           ELSE /\ heap' = Append(heap, r.c)
                /\ lut' = [k \in DOMAIN lut \cup {r.c.id} |->
                              IF k = r.c.id THEN Len(heap) + 1 ELSE lut[k]]
                /\ cells' = Append(cells, <<order[idx], Len(heap) + 1>>)
                /\ idx' = idx + 1
                /\ UNCHANGED <<pc, err>>
    /\ UNCHANGED <<doc, order, root, elements, main_bb, geomVars, arrowVars, textVars>>

\* parse_mxfile, lines 250-263: back to the document order
ParseFinish ==
    /\ pc = "parse"
    /\ idx > Len(order)
    /\ root' = resorted_cells(cells)
    /\ idx' = 1
    /\ pc' = "render"
    /\ UNCHANGED <<doc, order, lut, cells, elements, main_bb, err, heap, geomVars, arrowVars, textVars>>

\* render_file, lines 839-863: one entity; an exception ends the run
RenderCell ==
    /\ pc = "render"
    /\ idx <= Len(root)
    /\ LET r == RenderOne(heap, root[idx])
       IN  IF r.err # ""
           THEN /\ pc' = "failed"
                /\ err' = r.err
                /\ UNCHANGED <<heap, elements, main_bb, idx>>
           ELSE /\ heap' = r.heap
                /\ elements' = IF r.skipped THEN elements
                               ELSE Append(elements, heap[root[idx]].id)
                /\ main_bb' = IF r.skipped THEN main_bb
                              ELSE Some(stretch_to_contain(main_bb, Get(r.bb)))
                /\ idx' = idx + 1
                /\ UNCHANGED <<pc, err>>
    /\ UNCHANGED <<doc, order, lut, cells, root, geomVars, arrowVars, textVars>>

\* render_file, lines 865-902: the page needs a bounding box
RenderFinish ==
    /\ pc = "render"
    /\ idx > Len(root)
    /\ IF IsNone(main_bb)
       THEN pc' = "failed" /\ err' = "AssertionError"
       ELSE pc' = "rendered" /\ err' = err
    /\ UNCHANGED <<doc, order, idx, lut, cells, root, elements, main_bb, heap, geomVars, arrowVars, textVars>>

Next == ReadCell \/ ParseSort \/ ParseCell \/ ParseFinish \/ RenderCell \/ RenderFinish

Spec == InitFile /\ [][Next]_vars


(***************************************************************************)
(* Properties of parse_mxfile and render_file (checked under Spec)         *)
(***************************************************************************)
\* parse_mxfile has returned
ParseReturned == root # <<>>

\* parse_mxfile has just returned, nothing is rendered yet
AfterParse == pc = "render" /\ idx = 1

DocIds == { doc[i].id : i \in 1 .. Len(doc) }

PosOf(id) == CHOOSE i \in 1 .. Len(doc) : doc[i].id = id

IsNodeCell(cell) == ~cell.edge /\ IsNone(cell.style.text) /\ IsNone(cell.style.edgeLabel)

\* the cells render_file draws: all but groups and nodes without geometry
Drawable(cell) ==
    ~IsNodeCell(cell) \/ (IsNone(cell.style.group) /\ ~IsNone(cell.geom))

DrawableIds(d) ==
    [i \in 1 .. Len(SelectSeq(d, Drawable)) |-> SelectSeq(d, Drawable)[i].id]

OptSet(o) == IF IsNone(o) THEN {} ELSE { Get(o) }

\* the ids a cell refers to: its parent, and a connector's source and target
Refs(cell) ==
    OptSet(cell.parent)
        \cup (IF cell.edge THEN OptSet(cell.source) \cup OptSet(cell.target) ELSE {})

\* C1: after parse_mxfile, Root.cells is in the document order of the mxCell
\* elements, whatever order they were processed in, and render_file emits the
\* drawable entities in that same order.
C1_PaintOrderIsDocumentOrder ==
    ParseReturned =>
        /\ Len(root) = Len(doc)
        /\ \A i \in 1 .. Len(doc) : heap[root[i]].id = doc[i].id
        /\ elements = DrawableIds(SubSeq(doc, 1, idx - 1))

\* a connector between the nodes on either side of it: processed last, painted
\* second
C1_Witness ==
    /\ pc = "rendered"
    /\ Len(doc) = 3
    /\ doc[2].edge /\ doc[2].source = Some(3) /\ doc[2].target = Some(1)
    /\ order = <<1, 3, 2>>
    /\ elements = <<1, 2, 3>>

\* the entities of the document a cell refers to: a node's parent node, a
\* connector's source and target node, a connector label's parent connector
EntityRefs(cell) ==
    { r \in Refs(cell) \cap DocIds :
        IF IsNodeCell(cell) \/ cell.edge
        THEN IsNodeCell(doc[PosOf(r)])
        ELSE ~IsNone(cell.style.edgeLabel) /\ doc[PosOf(r)].edge }

\* C2: for every document order, when parse_mxfile processes an entity, every
\* entity of the document it refers to (parent, source, target) has already
\* been processed and is in the lookup table.
C2_ReferencesAlreadyProcessed ==
    (pc = "parse" /\ idx <= Len(order)) =>
        EntityRefs(doc[order[idx]]) \subseteq DOMAIN lut

\* C3: parse_mxfile never completes when a cell's parent id or a connector's
\* source or target id is the id of no cell.
C3_DanglingReferenceFails ==
    ParseReturned => \A i \in 1 .. Len(doc) : Refs(doc[i]) \subseteq DocIds

\* C4: after parse_mxfile, a node with a parent node has x and y equal to its
\* parsed x and y plus the parent's absolute x and y, and its parsed width and
\* height.
C4_NestedGeometryIsAbsolute ==
    AfterParse =>
        \A i \in 1 .. Len(doc) :
            (/\ IsNodeCell(doc[i]) /\ ~IsNone(doc[i].geom)
             /\ ~IsNone(doc[i].parent) /\ Get(doc[i].parent) \in DocIds
             /\ IsNodeCell(doc[PosOf(Get(doc[i].parent))])
             /\ ~IsNone(doc[PosOf(Get(doc[i].parent))].geom)) =>
                /\ Get(heap[root[i]].geometry).x =
                       Get(doc[i].geom).x
                           + Get(heap[root[PosOf(Get(doc[i].parent))]].geometry).x
                /\ Get(heap[root[i]].geometry).y =
                       Get(doc[i].geom).y
                           + Get(heap[root[PosOf(Get(doc[i].parent))]].geometry).y
                /\ Get(heap[root[i]].geometry).width = Get(doc[i].geom).width
                /\ Get(heap[root[i]].geometry).height = Get(doc[i].geom).height

\* a node that cannot fail: a rectangle with geometry and no parent
PlainBox(cell) ==
    /\ IsNodeCell(cell) /\ IsNone(cell.parent) /\ ~IsNone(cell.geom)
    /\ IsNone(cell.style.shape) /\ IsNone(cell.style.group)

\* the errors of one entity: a shape without a template, a connector end that
\* cannot be resolved
EntityLocalErrors == {"NotImplementedError", "render_arrow"}

\* C10: when one entity fails with an entity-local error, the other entities
\* are still processed and emitted.
C10_LocalErrorsSpareSiblings ==
    (pc = "failed" /\ err \in EntityLocalErrors) =>
        \A i \in 1 .. Len(doc) :
            PlainBox(doc[i]) => \E k \in 1 .. Len(elements) : elements[k] = doc[i].id


\* C11: rendering one entity does not change what another entity's rendering
\* reads: the path and bounding box render_arrow gives for a connector are the
\* same before and after any other entity is rendered, and rendering a node a
\* second time gives the same geometry as the first time.
C11_RenderingLeavesOthersAlone ==
    [][(pc = "render" /\ pc' = "render" /\ idx' = idx + 1) =>
          /\ \A i \in 1 .. Len(heap) :
                 (IsArrow(heap[i]) /\ i # root[idx]) =>
                     /\ render_arrow(heap', heap'[i]).points = render_arrow(heap, heap[i]).points
                     /\ render_arrow(heap', heap'[i]).bb = render_arrow(heap, heap[i]).bb
          /\ (IsCell(heap[root[idx]]) /\ Len(elements') > Len(elements)) =>
                 render_rect(heap', root[idx]).bb = render_rect(heap, root[idx]).bb]_vars


(***************************************************************************)
(* text_expander.py: FontRenderer.  Lengths of the text layout are in      *)
(* model units, PX of them to a pixel, so that the half pixels the layout  *)
(* computes are whole numbers; font sizes are multiples of the font's      *)
(* units per em, so that the scale is a whole number too.                  *)
(***************************************************************************)
PX == 2

\* the font file: units per em, ascent and descent in font units, and the
\* advance width of each character's glyph ("z" has a zero advance)
Font ==
    [units_per_em |-> 4, ascent |-> 3, descent |-> 1,
     width |-> [a |-> 2, b |-> 3, z |-> 0]]

Chars == DOMAIN Font.width

\* FontRenderer.__init__; font_height_px is the pixel size
FontRenderer(font_path, font_size_px) ==
    [font_path |-> font_path,
     units_per_em |-> Font.units_per_em,
     scale |-> font_size_px \div Font.units_per_em,
     font_height_px |-> font_size_px]

\* TextLine; path is the characters the pen drew
TextLine(self, path, x_offset) ==
    [path |-> path,
     w |-> x_offset * self.scale,
     h |-> self.units_per_em * self.scale,
     ascent |-> Font.ascent * self.scale,
     descent |-> Font.descent * self.scale]

\* the wrap test with >= in place of >
Overflows_AtEqual(self, x_offset, width, max_w) ==
    (x_offset + width) * self.scale >= max_w

\* FontRenderer.render, line 40: (x_offset + glyph.width) > max_w / scale
Overflows(self, x_offset, width, max_w) ==
    (x_offset + width) * self.scale > max_w

\* FontRenderer.render, lines 34-48: the loop from character k on
RECURSIVE RenderFrom(_, _, _, _, _, _, _)
RenderFrom(self, data, max_w, k, x_offset, path, ret) ==
    IF k > Len(data)
    THEN Append(ret, TextLine(self, path, x_offset))
    ELSE IF Overflows(self, x_offset, Font.width[data[k]], max_w)
         THEN RenderFrom(self, data, max_w, k + 1, Font.width[data[k]], <<data[k]>>,
                         Append(ret, TextLine(self, path, x_offset)))
         ELSE RenderFrom(self, data, max_w, k + 1, x_offset + Font.width[data[k]],
                         Append(path, data[k]), ret)

\* FontRenderer.render
render(self, data, max_w) == RenderFrom(self, data, max_w, 1, 0, <<>>, <<>>)

(***************************************************************************)
(* One call of FontRenderer.render.                                        *)
(***************************************************************************)
MaxChars == 4

FontSizes == { 4 * PX, 8 * PX }

\* the summed advance of the first n characters, in font units
RECURSIVE Advance(_, _)
Advance(data, n) == IF n = 0 THEN 0 ELSE Advance(data, n - 1) + Font.width[data[n]]

InitWrap ==
    /\ pc = "wrap"
    /\ \E size \in FontSizes, data \in SeqsUpTo(Chars, MaxChars) :
         \E max_w \in 0 .. (Advance(data, Len(data)) * (size \div Font.units_per_em)) :
            args = Some([self |-> FontRenderer("helvetica-regular.ttf", size),
                         data |-> data, max_w |-> max_w])
    /\ font_cache = <<>> /\ parser = None /\ html = <<>>
    /\ out = None /\ cur = 0
    /\ heap = <<>>
    /\ GeomIdle
    /\ FileIdle

\* f.render(data, max_w)
RenderLines ==
    /\ pc = "wrap"
    /\ out' = Some(render(Get(args).self, Get(args).data, Get(args).max_w))
    /\ pc' = "wrap_done"
    /\ UNCHANGED <<cur, heap, geomVars, fileVars, textVars>>

NextWrap == RenderLines

SpecWrap == InitWrap /\ [][NextWrap]_vars

\* the container is exactly as wide as the first n characters
FitsExactly(n) ==
    Get(args).max_w = Advance(Get(args).data, n) * Get(args).self.scale

\* the first line holds the first n characters and the second starts with the
\* next one
BreaksAfter(n) ==
    /\ Len(Get(out)) >= 2
    /\ Get(out)[1].path = SubSeq(Get(args).data, 1, n)
    /\ Get(out)[2].path[1] = Get(args).data[n + 1]

\* C12 as stated: with a container width equal to the summed advance of the
\* first N characters, those N stay on the first line and character N+1 starts
\* a new line.
C12_ExactFitThenWrap ==
    pc = "wrap_done" =>
        \A n \in 1 .. Len(Get(args).data) - 1 : FitsExactly(n) => BreaksAfter(n)

\* C12 as amended: the same, when character N+1 has a positive advance width (a
\* character whose advance is zero adds nothing and stays on the line).
C12_ExactFitThenWrapPositive ==
    pc = "wrap_done" =>
        \A n \in 1 .. Len(Get(args).data) - 1 :
            (FitsExactly(n) /\ Font.width[Get(args).data[n + 1]] > 0) => BreaksAfter(n)

\* "ab" fits exactly, the third character wraps
C12_Witness ==
    /\ pc = "wrap_done"
    /\ Get(args).data = <<"a", "b", "a">>
    /\ FitsExactly(2)
    /\ Len(Get(out)) = 2
    /\ Get(out)[1].path = <<"a", "b">> /\ Get(out)[1].w = Get(args).max_w
    /\ Get(out)[2].path = <<"a">>


(***************************************************************************)
(* One call of get_closest_side or closest_point on a box and a reference  *)
(* point.                                                                  *)
(***************************************************************************)
SideMaxPos == 3

SideCoords == { 20 * k : k \in (0 - SideMaxPos) .. SideMaxPos }

SideSizes == {40, 80}

InitSide ==
    /\ pc = "side"
    /\ \E x \in {-40, 0}, w \in SideSizes, h \in SideSizes, px \in SideCoords, py \in SideCoords :
          args = Some([c |-> Cell(1, Some(Geometry(x, 0, w, h)), "Rect", "EAST", None, FALSE, ""),
                       p |-> Point(px, py)])
    /\ font_cache = <<>> /\ parser = None /\ html = <<>>
    /\ out = None /\ cur = 0
    /\ heap = <<>>
    /\ GeomIdle
    /\ FileIdle

\* get_closest_side(c, p)
ClosestSide ==
    /\ pc = "side"
    /\ out' = Some(get_closest_side(Get(args).c, Get(args).p))
    /\ pc' = "side_done"
    /\ UNCHANGED <<cur, heap, geomVars, fileVars, textVars>>

\* closest_point(c, p)
ClosestPoint ==
    /\ pc = "side"
    /\ out' = Some(closest_point(Get(args).c, Get(args).p))
    /\ pc' = "point_done"
    /\ UNCHANGED <<cur, heap, geomVars, fileVars, textVars>>

NextSide == ClosestSide \/ ClosestPoint

SpecSide == InitSide /\ [][NextSide]_vars

\* the squared distance from the reference point to the k-th side-center
SideDist(k) == Dist2(Get(args).p, center_points(Get(args).c)[k])

\* side k is nearest and no side before it in the order is as near
FirstNearest(k) ==
    /\ \A m \in 1 .. 4 : SideDist(k) <= SideDist(m)
    /\ \A m \in 1 .. k - 1 : SideDist(m) # SideDist(k)

\* C13: of the side-centers at the least distance from the reference point, the
\* side get_closest_side returns and the point closest_point returns are the
\* first in the order left, right, top, bottom.
C13_TiesGoToEarlierSide ==
    /\ pc = "side_done" =>
          \E k \in 1 .. 4 : Get(out) = SideOrder[k] /\ FirstNearest(k)
    /\ pc = "point_done" =>
          \E k \in 1 .. 4 : Get(out) = center_points(Get(args).c)[k] /\ FirstNearest(k)

\* the reference point at the middle of a square: all four sides tie, the left
\* one is returned
C13_Witness ==
    /\ pc = "point_done"
    /\ SideDist(1) = SideDist(2) /\ SideDist(2) = SideDist(3) /\ SideDist(3) = SideDist(4)
    /\ Get(out) = center_points(Get(args).c)[1]


(***************************************************************************)
(* Properties of the connector's point list and caps                       *)
(***************************************************************************)
\* the list render_arrow starts from: the synthesized route, or arrow.points
\* as it was before the call
ArrowBase ==
    IF Get(out).synthesized
    THEN Synthesized
    ELSE IF Get(out).aliased THEN Get(out).path ELSE heap[cur].points

\* the anchors added by comparing with the last and the first point only
DedupByEnds(points, source_point, target_point) ==
    LET p1 == IF points = <<>> \/ points[Len(points)] # target_point
              THEN Append(points, target_point) ELSE points
    IN  IF p1[1] # source_point THEN <<source_point>> \o p1 ELSE p1

\* C14: the target anchor is appended exactly when the last point of the list
\* differs from it, and the source anchor prepended exactly when the first point
\* differs from it; an equal point elsewhere in the list changes nothing.
C14_AnchorsComparedWithEndsOnly ==
    ArrowDone =>
        Get(out).path = DedupByEnds(ArrowBase, Get(Get(out).source_point),
                                    Get(Get(out).target_point))


\* both ends are node references without anchor fractions
BothEndsFree ==
    /\ heap[cur].source.tag = "node" /\ heap[cur].target.tag = "node"
    /\ Unconstrained

\* C15: with both ends unconstrained node references the target's side-center
\* is picked first, as the one nearest to the source node, and the source's
\* side-center is then the one nearest to that target point.
C15_TargetPickedFirst ==
    (ArrowDone /\ BothEndsFree) =>
        LET tp == closest_point(heap[heap[cur].target.node], heap[heap[cur].source.node])
        IN  /\ Get(Get(out).target_point) = tp
            /\ Get(Get(out).source_point) = closest_point(heap[heap[cur].source.node], tp)


\* an end point moved one unit toward its neighbour on each axis where they differ
TowardInterior(end, adjacent) == PAdd(end, normalized(PSub(adjacent, end)))

\* C16: whatever path render_arrow builds, a "classic" end is emitted moved by
\* the per-axis sign of (adjacent interior point - end point), and a "none" end
\* is emitted at the anchor unchanged.
C16_CapsMoveEndsInward ==
    (pc = "arrow_done" /\ Get(out).err \in {"", "caps"}) =>
        /\ Get(out).err = ""
        /\ LET path == Get(out).path
               points == Get(out).points
               n == Len(path)
           IN  /\ Len(points) = n
               /\ points[1] = IF heap[cur].start_style = "classic"
                              THEN TowardInterior(path[1], path[2]) ELSE path[1]
               /\ points[n] = IF heap[cur].end_style = "classic"
                              THEN TowardInterior(path[n], path[n - 1]) ELSE path[n]


(***************************************************************************)
(* parser.py: get_font and the module's _font_cache, a dictionary from     *)
(* the key "family-style" to the renderer stored under it.                 *)
(***************************************************************************)
FontKey(font_fam, style) == <<font_fam, style>>

\* get_font: the renderer returned and the cache afterwards
get_font(cache, font_fam, style, font_size) ==
    LET key == FontKey(font_fam, style)
    IN  IF key \in DOMAIN cache
        THEN [f |-> cache[key], cache |-> cache]
        ELSE LET f == FontRenderer(key, font_size)
             IN  [f |-> f,
                  cache |-> [k \in DOMAIN cache \cup {key} |->
                                IF k = key THEN f ELSE cache[k]]]

(***************************************************************************)
(* A sequence of get_font calls.                                           *)
(***************************************************************************)
MaxFontCalls == 3

FontFamilies == {"helvetica"}

FontStyles == {"regular", "bold", "italic", "bold-italic"}

InitFont ==
    /\ pc = "font"
    /\ font_cache = <<>> /\ parser = None /\ html = <<>> /\ args = None
    /\ out = None /\ cur = 0
    /\ heap = <<>>
    /\ GeomIdle
    /\ FileIdle

\* get_font(font_fam, style, font_size)
GetFont ==
    /\ pc = "font"
    /\ cur < MaxFontCalls
    /\ \E font_fam \in FontFamilies, style \in FontStyles, font_size \in FontSizes :
          LET r == get_font(font_cache, font_fam, style, font_size)
          IN  /\ args' = Some([font_fam |-> font_fam, style |-> style, font_size |-> font_size])
              /\ out' = Some(r.f)
              /\ font_cache' = r.cache
    /\ cur' = cur + 1
    /\ UNCHANGED <<pc, heap, parser, html, geomVars, fileVars>>

NextFont == GetFont

SpecFont == InitFont /\ [][NextFont]_vars

\* C20: after any sequence of get_font calls the renderer returned has the
\* requested pixel size, and so the scale and line height of that size.
C20_FontHasRequestedSize ==
    (pc = "font" /\ cur > 0) =>
        /\ Get(out).font_height_px = Get(args).font_size
        /\ Get(out).scale = Get(args).font_size \div Font.units_per_em


(***************************************************************************)
(* html_flattener.py.  A value is the sequence of items HTMLParser.feed    *)
(* hands to the callbacks: start tags, end tags and character data; text   *)
(* is a sequence of characters.                                            *)
(***************************************************************************)
StartTag(tag, attrs) == [kind |-> "start", tag |-> tag, attrs |-> attrs]

EndTag(tag) == [kind |-> "end", tag |-> tag]

Data(data) == [kind |-> "data", data |-> data]

TextToken(text, bold, italic, color) ==
    [type |-> "TextToken", text |-> text, bold |-> bold, italic |-> italic, color |-> color]

NewlineToken == [type |-> "NewlineToken"]

\* HTMLToTokenParser.__init__
HTMLToTokenParser ==
    [tokens |-> <<>>, current_text |-> <<>>, bold |-> FALSE, italic |-> FALSE,
     color_stack |-> <<>>]

\* HTMLToTokenParser._flush_text
_flush_text(self) ==
    IF self.current_text = <<>>
    THEN self
    ELSE [self EXCEPT
            !.tokens = Append(@, TextToken(self.current_text, self.bold, self.italic,
                                  IF self.color_stack # <<>>
                                  THEN Some(self.color_stack[Len(self.color_stack)])
                                  ELSE None)),
            !.current_text = <<>>]

\* handle_starttag, lines 43-45: every color attribute is pushed
RECURSIVE PushColors(_, _, _)
PushColors(color_stack, attrs, k) ==
    IF k > Len(attrs)
    THEN color_stack
    ELSE PushColors(IF attrs[k][1] = "color" THEN Append(color_stack, attrs[k][2])
                    ELSE color_stack, attrs, k + 1)

\* HTMLToTokenParser.handle_starttag
handle_starttag(self, tag, attrs) ==
    LET flushed == _flush_text(self)
    IN  CASE tag \in {"div", "br"} ->
                IF flushed.tokens # <<>>
                THEN [flushed EXCEPT !.tokens = Append(@, NewlineToken)]
                ELSE flushed
          [] tag = "b" -> [flushed EXCEPT !.bold = TRUE]
          [] tag = "i" -> [flushed EXCEPT !.italic = TRUE]
          [] tag = "font" -> [flushed EXCEPT !.color_stack = PushColors(@, attrs, 1)]
          [] OTHER -> flushed

\* HTMLToTokenParser.handle_endtag
handle_endtag(self, tag) ==
    LET flushed == _flush_text(self)
    IN  CASE tag = "b" -> [flushed EXCEPT !.bold = FALSE]
          [] tag = "i" -> [flushed EXCEPT !.italic = FALSE]
          [] tag = "font" ->
                IF flushed.color_stack # <<>>
                THEN [flushed EXCEPT !.color_stack = SubSeq(@, 1, Len(@) - 1)]
                ELSE flushed
          [] OTHER -> flushed

\* HTMLToTokenParser.handle_data
handle_data(self, data) == [self EXCEPT !.current_text = @ \o data]

\* HTMLParser.feed: one item to its callback
Handle(self, item) ==
    CASE item.kind = "start" -> handle_starttag(self, item.tag, item.attrs)
      [] item.kind = "end" -> handle_endtag(self, item.tag)
      [] item.kind = "data" -> handle_data(self, item.data)

\* HTMLParser.feed: the items in order
RECURSIVE Feed(_, _, _)
Feed(self, items, k) ==
    IF k > Len(items) THEN self ELSE Feed(Handle(self, items[k]), items, k + 1)

\* parse_html
parse_html(items) == _flush_text(Feed(HTMLToTokenParser, items, 1)).tokens

(***************************************************************************)
(* One call of parse_html, callback by callback.                           *)
(***************************************************************************)
MaxItems == 4

HtmlItems ==
    { Data(<<"a">>), Data(<<"b">>),
      StartTag("b", <<>>), EndTag("b"), StartTag("i", <<>>), EndTag("i"),
      StartTag("br", <<>>), StartTag("div", <<>>), EndTag("div"),
      StartTag("font", << <<"color", "#f00">> >>), EndTag("font"),
      StartTag("font", << <<"face", "Arial">> >>),
      StartTag("u", <<>>), EndTag("u") }

InitHtml ==
    /\ pc = "html"
    /\ html \in SeqsUpTo(HtmlItems, MaxItems)
    /\ parser = Some(HTMLToTokenParser)
    /\ font_cache = <<>> /\ args = None
    /\ out = None /\ cur = 0
    /\ heap = <<>>
    /\ GeomIdle
    /\ FileIdle

\* feed reaches a start tag
HandleStartTag ==
    /\ pc = "html" /\ cur < Len(html) /\ html[cur + 1].kind = "start"
    /\ parser' = Some(handle_starttag(Get(parser), html[cur + 1].tag, html[cur + 1].attrs))
    /\ cur' = cur + 1
    /\ UNCHANGED <<pc, out, heap, html, font_cache, args, geomVars, fileVars>>

\* feed reaches an end tag
HandleEndTag ==
    /\ pc = "html" /\ cur < Len(html) /\ html[cur + 1].kind = "end"
    /\ parser' = Some(handle_endtag(Get(parser), html[cur + 1].tag))
    /\ cur' = cur + 1
    /\ UNCHANGED <<pc, out, heap, html, font_cache, args, geomVars, fileVars>>

\* feed reaches character data
HandleData ==
    /\ pc = "html" /\ cur < Len(html) /\ html[cur + 1].kind = "data"
    /\ parser' = Some(handle_data(Get(parser), html[cur + 1].data))
    /\ cur' = cur + 1
    /\ UNCHANGED <<pc, out, heap, html, font_cache, args, geomVars, fileVars>>

\* parse_html, lines 77-78: the last flush, and the tokens returned
ReturnTokens ==
    /\ pc = "html" /\ cur = Len(html)
    /\ parser' = Some(_flush_text(Get(parser)))
    /\ out' = Some(_flush_text(Get(parser)).tokens)
    /\ pc' = "html_done"
    /\ UNCHANGED <<cur, heap, html, font_cache, args, geomVars, fileVars>>

NextHtml == HandleStartTag \/ HandleEndTag \/ HandleData \/ ReturnTokens

SpecHtml == InitHtml /\ [][NextHtml]_vars

\* the recognized vocabulary
KnownTags == {"b", "i", "br", "div", "font"}

\* the characters of a tag's markup
Markup(item) ==
    IF item.kind = "start" THEN <<"<", item.tag, ">">> ELSE <<"<", "/", item.tag, ">">>

\* the value with every tag outside the vocabulary turned into character data
Literal(items) ==
    [k \in 1 .. Len(items) |->
        IF items[k].kind # "data" /\ items[k].tag \notin KnownTags
        THEN Data(Markup(items[k]))
        ELSE items[k]]

\* C18: a tag outside the recognized vocabulary is literal text: the tokens
\* returned are those of the value in which the tag is character data, so the
\* markup appears in the runs and the tag changes neither flags, line breaks
\* nor run boundaries.
C18_UnknownTagsAreLiteralText ==
    pc = "html_done" => Get(out) = parse_html(Literal(html))


(***************************************************************************)
(* drawio_types.py: Text.from_styles, FontStyle.  parser.py:               *)
(* _render_exploded_text.  Lengths are in model units (PX to the pixel).   *)
(***************************************************************************)
\* the style keys Text.from_styles reads, each absent (None) or present
NoTextStyle ==
    [strokeColor |-> None, fontSize |-> None, align |-> None, fontFamily |-> None,
     verticalAlign |-> None, fontStyle |-> None, fontColor |-> None]

\* FontStyle.from_bitflags
from_bitflags(val) ==
    [bold |-> val % 2 = 1, italic |-> (val \div 2) % 2 = 1, underline |-> (val \div 4) % 2 = 1]

va_lut == [middle |-> "center", bottom |-> "end", top |-> "start"]

\* Text.from_styles; value is the text as the items of its markup
from_styles(id_, value, geometry, verticalPosition, horizontalPosition, style) ==
    [type |-> "Text", id |-> id_, value |-> value, geometry |-> geometry,
     strokeColor |-> IF StyleGet(style, "strokeColor", "#000") = "none"
                     THEN "#000" ELSE StyleGet(style, "strokeColor", "#000"),
     fontSize |-> StyleGet(style, "fontSize", 12 * PX),
     alignment |-> StyleGet(style, "align", "center"),
     fontFamily |-> StyleGet(style, "fontFamily", "Helvetica"),
     verticalAlign |-> va_lut[StyleGet(style, "verticalAlign", "middle")],
     verticalPosition |-> verticalPosition,
     horizontalPosition |-> horizontalPosition,
     fontStyle |-> from_bitflags(StyleGet(style, "fontStyle", 0)),
     fontColor |-> StyleGet(style, "fontColor", "#000"),
     direction |-> "EAST"]

\* Text.styled_as_html: "<" in self.value
styled_as_html(text) == \E k \in 1 .. Len(text.value) : text.value[k].kind # "data"

\* str.lower on the family names of the model
Lower(font_fam) ==
    CASE font_fam = "Helvetica" -> "helvetica"
      [] font_fam = "Verdana" -> "verdana"
      [] font_fam = "Liberation Serif" -> "liberation serif"
      [] OTHER -> font_fam

\* _render_exploded_text, lines 362-367: the family looked up, Verdana replaced
FontFamilyOf(text) ==
    IF text.fontFamily = "Verdana" THEN "Liberation Serif" ELSE Lower(text.fontFamily)

\* line 367: the replacement is written into the Text
FamilyReplaced(text) ==
    IF text.fontFamily = "Verdana" THEN [text EXCEPT !.fontFamily = "Liberation Serif"] ELSE text

\* off_, lines 317-336: the position outside the box; <<>> stands for ValueError
OffOutside(text) ==
    LET g == text.geometry
        x == CASE text.horizontalPosition = "left" -> Some(g.x - g.width)
               [] text.horizontalPosition = "center" -> Some(g.x)
               [] text.horizontalPosition = "right" -> Some(g.x + g.width)
               [] OTHER -> None
        y == CASE text.verticalPosition = "top" -> Some(g.y - g.height)
               [] text.verticalPosition = "middle" -> Some(g.y)
               [] text.verticalPosition = "bottom" -> Some(g.y + g.height)
               [] OTHER -> None
    IN  [x |-> x, y |-> y]

\* off_, lines 339-358: the position inside the box
OffInside(text, r) ==
    LET g == text.geometry
        y == CASE text.verticalAlign = "start" -> Some(r.h)
               [] text.verticalAlign = "center" -> Some((g.height \div 2) + (r.ascent \div 2))
               [] text.verticalAlign = "end" -> Some(g.height - r.descent)
               [] OTHER -> None
        x == CASE text.alignment = "left" -> Some(0)
               [] text.alignment = "center" -> Some((g.width \div 2) - (r.w \div 2))
               [] text.alignment = "right" -> Some(g.width - r.w)
               [] OTHER -> None
    IN  [x |-> x, y |-> y]

\* off_
off_(text, r) ==
    IF IsNone(OffOutside(text).x) \/ IsNone(OffOutside(text).y)
          \/ IsNone(OffInside(text, r).x) \/ IsNone(OffInside(text, r).y)
    THEN [err |-> "ValueError", x |-> 0, y |-> 0]
    ELSE [err |-> "", x |-> Get(OffOutside(text).x) + Get(OffInside(text, r).x),
          y |-> Get(OffOutside(text).y) + Get(OffInside(text, r).y)]

\* the loop's locals before the first token; f is the renderer of the last run
LayoutStart(cache) ==
    [err |-> "", geom |-> None, y_off |-> 0, x_off |-> 0, ascent |-> 0, r_text |-> <<>>,
     cache |-> cache, f |-> None]

\* lines 413-425: one line of one run.  The path keeps the characters drawn,
\* where they are drawn and their fill; token, w, h, ascent and x_off record
\* the run and the line the path was drawn for, and how far into its line it
\* starts.
LayLine(text, st, line, line_idx, color, k) ==
    LET o == off_(text, line)
        y_off == IF line_idx > 0 THEN st.y_off + line.h ELSE st.y_off
        x_off == IF line_idx > 0 THEN 0 ELSE st.x_off
        x == o.x + x_off
        y == o.y + y_off
    IN  IF o.err # ""
        THEN [st EXCEPT !.err = o.err, !.ascent = line.ascent]
        ELSE [st EXCEPT
                !.ascent = line.ascent,
                !.y_off = y_off,
                !.x_off = x_off + line.w,
                !.geom = Some(stretch_to_contain(st.geom,
                                  Geometry(x, y - line.ascent, line.w, line.h))),
                !.r_text = Append(@, [d |-> line.path, x |-> x, y |-> y, fill |-> color,
                                      token |-> k, w |-> line.w, h |-> line.h,
                                      ascent |-> line.ascent, x_off |-> x_off])]

\* lines 412-425: the lines of one run
RECURSIVE LayLines(_, _, _, _, _, _)
LayLines(text, st, rendered, line_idx, color, k) ==
    IF line_idx >= Len(rendered) \/ st.err # ""
    THEN st
    ELSE LayLines(text, LayLine(text, st, rendered[line_idx + 1], line_idx, color, k),
                  rendered, line_idx + 1, color, k)

\* lines 385-392: the style and colour of a run
RunStyle(text, token) ==
    IF styled_as_html(text)
    THEN [bold |-> token.bold, italic |-> token.italic,
          color |-> IF IsNone(token.color) \/ Get(token.color) = ""
                    THEN text.strokeColor ELSE Get(token.color)]
    ELSE [bold |-> text.fontStyle.bold, italic |-> text.fontStyle.italic,
          color |-> text.fontColor]

\* lines 394-404
StyleName(bold, italic) ==
    CASE ~bold /\ ~italic -> "regular"
      [] bold /\ ~italic -> "bold"
      [] ~bold /\ italic -> "italic"
      [] bold /\ italic -> "bold-italic"

\* lines 406-425: the run rendered with the font got from the cache
LayRun(text, st, token, k, fnt) ==
    LayLines(text, [st EXCEPT !.cache = fnt.cache, !.f = Some(fnt.f)],
             render(fnt.f, token.text, text.geometry.width), 0,
             RunStyle(text, token).color, k)

\* lines 379-425: one token
LayToken(text, st, token, k) ==
    IF token.type = "NewlineToken"
    THEN [st EXCEPT
            !.x_off = 0,
            !.y_off = @ + get_font(st.cache, FontFamilyOf(text), "regular",
                                   text.fontSize).f.font_height_px,
            !.cache = get_font(st.cache, FontFamilyOf(text), "regular", text.fontSize).cache]
    ELSE LayRun(text, st, token, k,
                get_font(st.cache, FontFamilyOf(text),
                         StyleName(RunStyle(text, token).bold, RunStyle(text, token).italic),
                         text.fontSize))

\* lines 379-425: the tokens in order
RECURSIVE LayTokens(_, _, _, _)
LayTokens(text, st, parsed, k) ==
    IF k > Len(parsed) \/ st.err # ""
    THEN st
    ELSE LayTokens(text, LayToken(text, st, parsed[k], k), parsed, k + 1)

\* the correction without the case of the 108 pixel font
DeltaY_OneConstant(st) ==
    ((st.ascent - Get(st.geom).height) \div 2) + ((3 * PX) \div 2)

\* lines 431-438: the vertical correction
DeltaY(st) ==
    ((st.ascent - Get(st.geom).height) \div 2)
        + (IF Get(st.f).font_height_px = 108 * PX THEN 0 - (6 * PX) ELSE (3 * PX) \div 2)

\* lines 427-441: the asserts, the correction and the result
Exploded(st) ==
    IF st.err # ""
    THEN [err |-> st.err, r_text |-> <<>>, geom |-> None, deltaY |-> 0, cache |-> st.cache,
          f |-> st.f]
    ELSE IF IsNone(st.geom) \/ st.ascent = 0
         THEN [err |-> "AssertionError", r_text |-> <<>>, geom |-> None, deltaY |-> 0,
               cache |-> st.cache, f |-> st.f]
         ELSE [err |-> "", r_text |-> st.r_text,
               geom |-> Some([Get(st.geom) EXCEPT !.y = @ + DeltaY(st)]),
               deltaY |-> DeltaY(st), cache |-> st.cache, f |-> st.f]

\* _render_exploded_text, with the font cache it finds; the result carries the
\* cache it leaves
_render_exploded_text(cache, text) ==
    Exploded(LayTokens(text, LayoutStart(cache), parse_html(text.value), 1))


(***************************************************************************)
(* One Text laid out by _render_exploded_text, with the font cache empty   *)
(* or left by an earlier text of another size.                             *)
(***************************************************************************)
TextValues ==
    { <<Data(<<"a", "b">>)>>,
      <<Data(<<"a", "b", "a", "b">>)>>,
      <<Data(<<"a">>), StartTag("br", <<>>), Data(<<"b">>)>>,
      <<StartTag("b", <<>>), Data(<<"a">>), EndTag("b"), Data(<<"b">>)>>,
      <<StartTag("font", << <<"color", "#f00">> >>), Data(<<"a">>), EndTag("font"),
        Data(<<"b">>)>>,
      <<StartTag("br", <<>>)>> }

TextSizes == { 8 * PX, 108 * PX }

TextColors == { None, Some("#00f") }

TextStyles ==
    { [NoTextStyle EXCEPT !.fontSize = fs, !.fontColor = fc, !.strokeColor = sc,
                          !.align = al, !.verticalAlign = va, !.fontStyle = bits] :
        fs \in { None } \cup { Some(z) : z \in TextSizes },
        fc \in TextColors,
        sc \in { None, Some("#0f0") },
        al \in { None, Some("left") },
        va \in { None, Some("top") },
        bits \in { None, Some(1) } }

TextCaches ==
    { <<>> } \cup { get_font(<<>>, "helvetica", "regular", z).cache : z \in TextSizes }

InitText ==
    /\ pc = "text"
    /\ \E value \in TextValues, style \in TextStyles, w \in { 8 * PX, 400 * PX },
          pos \in { <<"middle", "center">>, <<"top", "left">>, <<"bottom", "right">> } :
          args = Some([text |-> from_styles("t", value, Geometry(0, 0, w, 20 * PX),
                                            pos[1], pos[2], style),
                       style |-> style])
    /\ font_cache \in TextCaches
    /\ parser = None /\ html = <<>>
    /\ out = None /\ cur = 0
    /\ heap = <<>>
    /\ GeomIdle
    /\ FileIdle

\* _render_exploded_text(text)
RenderExplodedText ==
    /\ pc = "text"
    /\ out' = Some(_render_exploded_text(font_cache, Get(args).text))
    /\ font_cache' = _render_exploded_text(font_cache, Get(args).text).cache
    /\ args' = Some([Get(args) EXCEPT !.text = FamilyReplaced(@)])
    /\ pc' = "text_done"
    /\ UNCHANGED <<cur, heap, parser, html, geomVars, fileVars>>

NextText == RenderExplodedText

SpecText == InitText /\ [][NextText]_vars


TextDone == pc = "text_done" /\ Get(out).err = ""

\* the colour a run asks for itself, if any
RunOverride(k) == parse_html(Get(args).text.value)[k].color

\* C17: every path is filled with its run's colour override when the run has
\* one, otherwise with the entity's font colour when the style sets one,
\* otherwise with the entity's stroke colour; in rich-text and in uniform mode.
C17_GlyphColourFallsBack ==
    TextDone =>
        \A i \in 1 .. Len(Get(out).r_text) :
            Get(out).r_text[i].fill =
                IF ~IsNone(RunOverride(Get(out).r_text[i].token))
                THEN Get(RunOverride(Get(out).r_text[i].token))
                ELSE IF ~IsNone(Get(args).style.fontColor)
                     THEN Get(Get(args).style.fontColor)
                     ELSE Get(args).text.strokeColor

\* the box of the i-th path's line
LineBox(i) ==
    LET r == Get(out).r_text[i]
    IN  [left |-> r.x, top |-> r.y - r.ascent, right |-> r.x + r.w,
         bottom |-> (r.y - r.ascent) + r.h]

Lines == 1 .. Len(Get(out).r_text)

\* the union of the line boxes
UnionLeft == CHOOSE v \in { LineBox(i).left : i \in Lines } : \A i \in Lines : v <= LineBox(i).left

UnionTop == CHOOSE v \in { LineBox(i).top : i \in Lines } : \A i \in Lines : v <= LineBox(i).top

UnionRight == CHOOSE v \in { LineBox(i).right : i \in Lines } : \A i \in Lines : v >= LineBox(i).right

UnionBottom == CHOOSE v \in { LineBox(i).bottom : i \in Lines } : \A i \in Lines : v >= LineBox(i).bottom

\* -H/2 + a/2: H the height of the union, a the ascent of the last line
HalfAscentShift ==
    (Get(out).r_text[Len(Get(out).r_text)].ascent - (UnionBottom - UnionTop)) \div 2

\* x, width and height of the reported box are those of the union
BoxSpansUnion ==
    /\ Get(Get(out).geom).x = UnionLeft
    /\ Get(Get(out).geom).width = UnionRight - UnionLeft
    /\ Get(Get(out).geom).height = UnionBottom - UnionTop

C21_WaypointsSurviveRendering ==
    [][(pc = "arrow" /\ pc' = "arrow_done") =>
          /\ heap'[cur].points = heap[cur].points
          /\ render_arrow(heap', heap'[cur]).points = render_arrow(heap, heap[cur]).points
          /\ render_arrow(heap', heap'[cur]).bb = render_arrow(heap, heap[cur]).bb]_vars


(***************************************************************************)
(* parse_mxfile over a file of several diagrams: one lookup table, made    *)
(* before the loop over the diagrams, and one list of cells per diagram.   *)
(* out holds the Root.cells of the diagrams parsed so far.  Ids are unique *)
(* in the file: a cell is numbered by its position among all mxCell        *)
(* elements.                                                               *)
(***************************************************************************)
MaxDiagrams == 2

MaxDiagramCells == 2

\* boxes with and without a parent, a layer, connectors between neighbours
\* and from the cell before to a free point
DiagramCells(i) ==
    { mxCell(i, Ref(i, k), FALSE, NoStyle, BoxGeom(i), None, None, None, None) : k \in RefKinds }
        \cup { mxCell(i, None, FALSE, NoStyle, None, None, None, None, None),
               mxCell(i, None, TRUE, EdgeStyle, EdgeGeom, Some(i - 1), Some(i + 1), None, None),
               mxCell(i, None, TRUE, EdgeStyle, EdgeGeom, Some(i - 1), None,
                      None, Some(Point(RawX(i), RawY(i)))) }

\* parse_mxfile, lines 157-160
InitDiagrams ==
    /\ pc = "read"
    /\ doc = <<>>
    /\ order = <<>> /\ idx = 0 /\ lut = <<>> /\ cells = <<>>
    /\ root = <<>> /\ elements = <<>> /\ main_bb = None /\ err = ""
    /\ heap = <<>>
    /\ cur = 0 /\ out = Some(<<>>)
    /\ GeomIdle
    /\ TextIdle

\* lines 161-166: the next mxCell element of the next diagram
ReadDiagramCell ==
    /\ pc = "read"
    /\ Len(Get(out)) < MaxDiagrams
    /\ Len(doc) < MaxDiagramCells
    /\ \E cell \in DiagramCells(Len(heap) + Len(doc) + 1) : doc' = Append(doc, cell)
    /\ UNCHANGED <<pc, order, idx, lut, cells, root, elements, main_bb, err, heap,
                   geomVars, arrowVars, textVars>>

\* lines 250-261: the diagram is appended; the next one starts with an empty
\* list of cells (line 165) and the lookup table as it is
DiagramFinish ==
    /\ pc = "parse"
    /\ idx > Len(order)
    /\ root' = resorted_cells(cells)
    /\ out' = Some(Append(Get(out), resorted_cells(cells)))
    /\ cells' = <<>> /\ doc' = <<>> /\ order' = <<>> /\ idx' = 0
    /\ pc' = "read"
    /\ UNCHANGED <<lut, elements, main_bb, err, heap, cur, geomVars, textVars>>

\* line 263: no diagram is left
ReturnMxFile ==
    /\ pc = "read"
    /\ doc = <<>>
    /\ pc' = "returned"
    /\ UNCHANGED <<doc, order, idx, lut, cells, root, elements, main_bb, err, heap,
                   geomVars, arrowVars, textVars>>

NextDiagrams == ReadDiagramCell \/ ParseSort \/ ParseCell \/ DiagramFinish \/ ReturnMxFile

SpecDiagrams == InitDiagrams /\ [][NextDiagrams]_vars

\* the diagram an entity belongs to: a diagram already appended, or the one
\* being parsed
DiagramOf(h) ==
    IF \E d \in 1 .. Len(Get(out)) : \E k \in 1 .. Len(Get(out)[d]) : Get(out)[d][k] = h
    THEN CHOOSE d \in 1 .. Len(Get(out)) : \E k \in 1 .. Len(Get(out)[d]) : Get(out)[d][k] = h
    ELSE Len(Get(out)) + 1

\* the entities an entity holds: its parent node, a connector's end nodes
LinksOf(e) ==
    (IF IsCell(e) THEN OptSet(e.parent_node) ELSE {})
        \cup (IF IsArrow(e) /\ e.source.tag = "node" THEN {e.source.node} ELSE {})
        \cup (IF IsArrow(e) /\ e.target.tag = "node" THEN {e.target.node} ELSE {})

\* C22: in a file of several diagrams, the parent and the end nodes of every
\* entity are entities of the entity's own diagram.
C22_ReferencesStayInDiagram ==
    \A h \in 1 .. Len(heap) : \A r \in LinksOf(heap[h]) : DiagramOf(r) = DiagramOf(h)


(***************************************************************************)
(* Connectors that fail                                                    *)
(***************************************************************************)
\* an end that resolves to a point: a free point, or a node with a geometry,
\* either unconstrained or with both anchor fractions
EndResolves(e) ==
    \/ e.tag = "point"
    \/ /\ e.tag = "node"
       /\ IsCell(heap[e.node]) /\ HasGeometry(heap[e.node])
       /\ (IsNone(e.X) <=> IsNone(e.Y))

\* C23: render_arrow returns a path for every connector whose two ends each
\* resolve to a point, with or without waypoints, whatever kinds the ends are.
C23_ResolvedEndsGiveAPath ==
    (pc = "arrow_done" /\ EndResolves(heap[cur].source) /\ EndResolves(heap[cur].target)) =>
        /\ Get(out).err = ""
        /\ Len(Get(out).points) >= 1


(***************************************************************************)
(* Font tags as nested elements: every open font tag is kept, with its     *)
(* colour when it has one.                                                 *)
(***************************************************************************)
\* the colour a font tag sets: its last color attribute, if any
RECURSIVE ColorOf(_, _)
ColorOf(attrs, k) ==
    IF k = 0 THEN None
    ELSE IF attrs[k][1] = "color" THEN Some(attrs[k][2]) ELSE ColorOf(attrs, k - 1)

\* the colours of the open font tags that have one, outermost first
OpenColors(open) ==
    [k \in 1 .. Len(SelectSeq(open, LAMBDA c : ~IsNone(c))) |->
        Get(SelectSeq(open, LAMBDA c : ~IsNone(c))[k])]

\* a font tag opens or closes an element; every other item is handled as the
\* parser handles it
NestedHandle(self, item) ==
    IF item.kind = "start" /\ item.tag = "font"
    THEN [_flush_text(self) EXCEPT
            !.open = Append(@, ColorOf(item.attrs, Len(item.attrs))),
            !.color_stack = OpenColors(Append(self.open, ColorOf(item.attrs, Len(item.attrs))))]
    ELSE IF item.kind = "end" /\ item.tag = "font"
         THEN IF self.open = <<>>
              THEN _flush_text(self)
              ELSE [_flush_text(self) EXCEPT
                      !.open = SubSeq(@, 1, Len(@) - 1),
                      !.color_stack = OpenColors(SubSeq(self.open, 1, Len(self.open) - 1))]
         ELSE Handle(self, item)

RECURSIVE NestedFeed(_, _, _)
NestedFeed(self, items, k) ==
    IF k > Len(items) THEN self ELSE NestedFeed(NestedHandle(self, items[k]), items, k + 1)

\* the runs with the colour of the innermost open font tag that has one
NestedRuns(items) ==
    _flush_text(NestedFeed([open |-> <<>>] @@ HTMLToTokenParser, items, 1)).tokens

\* C24: every run carries the colour of the innermost font tag with a color
\* attribute that is open where its text occurs, and none when no such tag is
\* open, for any nesting of font tags with and without a color attribute.
C24_RunColourIsInnermostOpenFont ==
    pc = "html_done" => Get(out) = NestedRuns(html)


(***************************************************************************)
(* Runs that share a line                                                  *)
(***************************************************************************)
\* every glyph drawn is narrower than the container
GlyphsFit ==
    \A i \in Lines : \A k \in 1 .. Len(Get(out).r_text[i].d) :
        Font.width[Get(out).r_text[i].d[k]] * (Get(out).r_text[i].h \div Font.units_per_em)
            < Get(args).text.geometry.width

\* C25: when every glyph is narrower than the container, no path ends beyond
\* the container width measured from the start of its line; a run that goes on
\* where the run before it ended has only the rest of the line.
C25_RunsStayInsideContainer ==
    (TextDone /\ GlyphsFit) =>
        \A i \in Lines :
            Get(out).r_text[i].x_off + Get(out).r_text[i].w <= Get(args).text.geometry.width


====
